---- MODULE Spec2Model ----
(***************************************************************************)
(* Verification development of the AXIOM verifier service                  *)
(* (services/verifier): the gRPC handler MyVerifier::verify with its       *)
(* DocstringChecker, and the SmtVerifier heuristic.                        *)
(*                                                                         *)
(* Strings the code inspects (language, constraint expressions) are        *)
(* sequences of one-character strings, so that to_lowercase and contains   *)
(* are computed.  Scores are in hundredths (1.0 is 100).                   *)
(***************************************************************************)
EXTENDS Integers, Sequences, FiniteSets, TLC

VARIABLES
    req,        \* req[p]: the VerifyRequest of call p
    pc,         \* pc[p]: position of call p inside verify
    valid,      \* valid[p]: the local `valid`
    issues,     \* issues[p]: the local `issues` vector
    checker,    \* checker[p]: the DocstringChecker of call p
    path,       \* path[p]: uuid of the temp file of call p (0 = none yet)
    fs,         \* fs[u]: content of /tmp/axiom_exec_<u>.py
    child,      \* child[p]: the interpreter subprocess of call p
    trail,      \* trail[p]: what the execution block of call p went through
    resp,       \* resp[p]: the VerifyResponse returned by call p
    smt_pc,     \* position of a call of SmtVerifier::verify_constraints
    smt_in,     \* its argument
    smt_ret     \* its return value

vars == <<req, pc, valid, issues, checker, path, fs, child, trail, resp,
          smt_pc, smt_in, smt_ret>>

verifyVars == <<req, pc, valid, issues, checker, path, fs, child, trail, resp>>
smtVars == <<smt_pc, smt_in, smt_ret>>

----------------------------------------------------------------------------
(* Bounds *)

\* longest module body in the general request family
MaxStmts == 2
\* longest module body in the documentation-coverage request family
MaxDefs == 6
\* longest constraint sequence handed to verify_constraints
MaxConstraints == 3
\* most check_def calls made on one DocstringChecker driven directly
MaxCalls == 5

----------------------------------------------------------------------------
(* Strings *)

UpperChars == <<"A","B","C","D","E","F","G","H","I","J","K","L","M",
                "N","O","P","Q","R","S","T","U","V","W","X","Y","Z">>
LowerChars == <<"a","b","c","d","e","f","g","h","i","j","k","l","m",
                "n","o","p","q","r","s","t","u","v","w","x","y","z">>

char_to_lowercase(c) ==
    IF \E i \in 1..Len(UpperChars) : UpperChars[i] = c
    THEN LowerChars[CHOOSE i \in 1..Len(UpperChars) : UpperChars[i] = c]
    ELSE c

to_lowercase(s) == [i \in 1..Len(s) |-> char_to_lowercase(s[i])]

is_empty(s) == Len(s) = 0

\* str::contains(pattern)
str_contains(s, pat) ==
    \E i \in 0..(Len(s) - Len(pat)) : SubSeq(s, i + 1, i + Len(pat)) = pat

S_python == <<"p","y","t","h","o","n">>
S_fail == <<"f","a","i","l">>
S_false == <<"f","a","l","s","e">>

----------------------------------------------------------------------------
(* The AST the parser hands back (rustpython_parser::ast::Stmt).           *)
(* A statement is a record: kind, name (of a definition), value (of an     *)
(* expression statement) and body (of a definition).                       *)

DefKinds == {"FunctionDef", "AsyncFunctionDef", "ClassDef"}

NoName == <<>>

PassStmt == [kind |-> "Pass", name |-> NoName, value |-> "None", body |-> <<>>]
ReturnStmt == [kind |-> "Return", name |-> NoName, value |-> "None", body |-> <<>>]
ExprStmt(v) == [kind |-> "Expr", name |-> NoName, value |-> v, body |-> <<>>]
DefStmt(k, n, b) == [kind |-> k, name |-> n, value |-> "None", body |-> b]

\* the statement shapes source texts are built from; i is the position of
\* the statement in the module body and makes the names distinct
StmtShapes == {"pass", "fn_doc", "fn_undoc", "async_undoc", "class_nested", "fn_int"}

MkStmt(shape, i) ==
    CASE shape = "pass" -> PassStmt
      [] shape = "fn_doc" ->
            DefStmt("FunctionDef", <<"f", i>>, <<ExprStmt("Str"), ReturnStmt>>)
      [] shape = "fn_undoc" ->
            DefStmt("FunctionDef", <<"f", i>>, <<ReturnStmt>>)
      [] shape = "async_undoc" ->
            DefStmt("AsyncFunctionDef", <<"a", i>>, <<PassStmt>>)
      [] shape = "class_nested" ->
            DefStmt("ClassDef", <<"C", i>>,
                    <<ExprStmt("Str"),
                      DefStmt("FunctionDef", <<"m", i>>, <<ReturnStmt>>)>>)
      [] shape = "fn_int" ->
            DefStmt("FunctionDef", <<"f", i>>, <<ExprStmt("Int"), ReturnStmt>>)

MkBody(shapes) == [i \in 1..Len(shapes) |-> MkStmt(shapes[i], i)]

SeqsUpTo(S, n) == UNION {[1..k -> S] : k \in 0..n}

\* module bodies of the general request family
SmallBodies == {MkBody(s) : s \in SeqsUpTo(StmtShapes, MaxStmts)}
\* module bodies of the documentation-coverage family: many definitions
LongBodies == {MkBody(s) : s \in SeqsUpTo({"fn_doc", "fn_undoc"}, MaxDefs)}

\* a source text is identified by what the parser makes of it
ParseErrOffsets == {0, 6}
OkCode(b) == [syntax |-> "ok", body |-> b, offset |-> 0]
ErrCode(o) == [syntax |-> "err", body |-> <<>>, offset |-> o]

\* rustpython_parser::parse(&code, Mode::Module, "<embedded>")
parse(code) ==
    IF code.syntax = "ok"
    THEN [tag |-> "Ok", body |-> code.body, offset |-> 0]
    ELSE [tag |-> "Err", body |-> <<>>, offset |-> code.offset]

----------------------------------------------------------------------------
(* DocstringChecker *)

DocstringChecker_new == [total_definitions |-> 0, documented |-> 0, missing_docs |-> <<>>]

\* body.first() is an expression statement whose value is a string constant
HasDocstring(body) ==
    /\ Len(body) > 0
    /\ body[1].kind = "Expr"
    /\ body[1].value = "Str"

\* check_def without the early return of a documented definition
check_def_no_return(ck, body, name) ==
    IF HasDocstring(body)
    THEN [ck EXCEPT !.total_definitions = @ + 1, !.documented = @ + 1,
                    !.missing_docs = Append(@, name)]
    ELSE [ck EXCEPT !.total_definitions = @ + 1,
                    !.missing_docs = Append(@, name)]

check_def(ck, body, name) ==
    IF HasDocstring(body)
    THEN [ck EXCEPT !.total_definitions = @ + 1, !.documented = @ + 1]
    ELSE [ck EXCEPT !.total_definitions = @ + 1,
                    !.missing_docs = Append(@, name)]

visit_stmt(ck, stmt) ==
    IF stmt.kind \in DefKinds THEN check_def(ck, stmt.body, stmt.name) ELSE ck

RECURSIVE check_from(_, _, _)
check_from(ck, ast, i) ==
    IF i > Len(ast) THEN ck ELSE check_from(visit_stmt(ck, ast[i]), ast, i + 1)

check(ck, ast) == check_from(ck, ast, 1)

----------------------------------------------------------------------------
(* SmtVerifier *)

RECURSIVE verify_constraints_from(_, _)
verify_constraints_from(constraints, i) ==
    IF i > Len(constraints) THEN TRUE
    ELSE IF str_contains(constraints[i], S_fail) \/ str_contains(constraints[i], S_false)
         THEN FALSE
         ELSE verify_constraints_from(constraints, i + 1)

verify_constraints(constraints) == verify_constraints_from(constraints, 1)

----------------------------------------------------------------------------
(* Requests *)

Procs == {1, 2}

E_x == <<"x">>
E_not_x == <<"n","o","t"," ","x">>
E_x_gt_0 == <<"x"," ",">"," ","0">>
E_x_lt_0 == <<"x"," ","<"," ","0">>
E_y_gt_0 == <<"y"," ",">"," ","0">>
E_x_eq_false == <<"x"," ","=","="," ","f","a","l","s","e">>

Contract(i, e) == [id |-> i, expression |-> e]

ContractLists ==
    { <<>>,
      <<Contract("c1", E_x_gt_0), Contract("c2", E_x_lt_0)>>,
      <<Contract("c1", S_fail)>> }

Languages ==
    { <<>>, S_python, <<"P","y","t","h","o","n">>, <<"P","Y","T","H","O","N">>,
      <<"r","u","s","t">> }

CheckNames == {"docstrings", "execution", "lint"}

GeneralRequests ==
    [code : {OkCode(b) : b \in SmallBodies} \cup {ErrCode(o) : o \in ParseErrOffsets},
     language : Languages,
     checks : SUBSET CheckNames,
     contracts : ContractLists]

CoverageRequests ==
    [code : {OkCode(b) : b \in LongBodies},
     language : {S_python},
     checks : {{"docstrings"}},
     contracts : {<<>>}]

Requests == GeneralRequests \cup CoverageRequests

NoReq == [code |-> OkCode(<<>>), language |-> <<>>, checks |-> {}, contracts |-> <<>>]

----------------------------------------------------------------------------
(* MyVerifier::verify, static tier *)

Issue(c, m, s, col) == [code |-> c, message |-> m, severity |-> s, line |-> 0, column |-> col]

\* lang_ok comparing the language as given, without to_lowercase
lang_ok_case_sensitive(r) == r.language = S_python \/ is_empty(r.language)

lang_ok(r) == to_lowercase(r.language) = S_python \/ is_empty(r.language)

\* syntax_check that reports the parse error and leaves valid alone
syntax_check_keeps_valid(r, st) ==
    IF lang_ok(r)
    THEN LET res == parse(r.code) IN
         IF res.tag = "Ok" THEN st
         ELSE [valid |-> st.valid,
               issues |-> Append(st.issues,
                    Issue("SYNTAX_ERROR", <<"parse error">>, "error", res.offset))]
    ELSE st

\* local state of one call: st = [valid, issues]
syntax_check(r, st) ==
    IF lang_ok(r)
    THEN LET res == parse(r.code) IN
         IF res.tag = "Ok" THEN st
         ELSE [valid |-> FALSE,
               issues |-> Append(st.issues,
                    Issue("SYNTAX_ERROR", <<"parse error">>, "error", res.offset))]
    ELSE st

\* format!("{:.0}", ratio * 100.0): nearest whole number, ties to even
percent(documented, total) ==
    LET q == (100 * documented) \div total
        r == (100 * documented) % total
    IN  IF 2 * r < total THEN q
        ELSE IF 2 * r > total THEN q + 1
        ELSE IF q % 2 = 0 THEN q ELSE q + 1

\* documented as f32 / total_definitions as f32 < 0.5 (exact for counts below 2^24)
low_ratio(ck) == 2 * ck.documented < ck.total_definitions

take(s, n) == SubSeq(s, 1, IF Len(s) < n THEN Len(s) ELSE n)

TakeLimit == 5

summary_issue(ck) ==
    Issue("DOCSTRING_MISSING",
          <<"Low docstring coverage", ck.documented, ck.total_definitions,
            percent(ck.documented, ck.total_definitions)>>,
          "warning", 0)

\* missing_issues without the take(5)
missing_issues_untruncated(ck) ==
    [i \in 1..Len(ck.missing_docs) |->
        Issue("DOCSTRING_MISSING", <<"lacks a docstring", ck.missing_docs[i]>>, "warning", 0)]

missing_issues(ck) ==
    LET shown == take(ck.missing_docs, TakeLimit) IN
    [i \in 1..Len(shown) |->
        Issue("DOCSTRING_MISSING", <<"lacks a docstring", shown[i]>>, "warning", 0)]

\* coverage_report that avoids the division by zero with max(total, 1)
\* instead of the total_definitions > 0 test
coverage_report_floor(ck, st) ==
    LET total == IF ck.total_definitions > 0 THEN ck.total_definitions ELSE 1
        st1 == IF 2 * ck.documented < total
               THEN [valid |-> FALSE,
                     issues |-> Append(st.issues,
                        Issue("DOCSTRING_MISSING",
                              <<"Low docstring coverage", ck.documented,
                                ck.total_definitions, percent(ck.documented, total)>>,
                              "warning", 0))]
               ELSE st
    IN  [st1 EXCEPT !.issues = @ \o missing_issues(ck)]

\* coverage_report whose low-coverage warning leaves valid alone
coverage_report_advisory(ck, st) ==
    IF ck.total_definitions > 0
    THEN LET st1 == IF low_ratio(ck)
                    THEN [st EXCEPT !.issues = Append(@, summary_issue(ck))]
                    ELSE st
         IN  [st1 EXCEPT !.issues = @ \o missing_issues(ck)]
    ELSE st

coverage_report(ck, st) ==
    IF ck.total_definitions > 0
    THEN LET st1 == IF low_ratio(ck)
                    THEN [valid |-> FALSE,
                          issues |-> Append(st.issues, summary_issue(ck))]
                    ELSE st
         IN  [st1 EXCEPT !.issues = @ \o missing_issues(ck)]
    ELSE st

\* the DocstringChecker the docstring check leaves behind
docstring_checker(r) ==
    IF "docstrings" \in r.checks /\ lang_ok(r) /\ parse(r.code).tag = "Ok"
    THEN check(DocstringChecker_new, parse(r.code).body)
    ELSE DocstringChecker_new

\* docstring_check that runs whatever the requested checks are
docstring_check_ungated(r, st) ==
    IF lang_ok(r)
    THEN LET res == parse(r.code) IN
         IF res.tag = "Ok"
         THEN coverage_report(check(DocstringChecker_new, res.body), st)
         ELSE st
    ELSE st

\* docstring_check that reports the parse error of its own parse
docstring_check_reparse_error(r, st) ==
    IF "docstrings" \in r.checks /\ lang_ok(r)
    THEN LET res == parse(r.code) IN
         IF res.tag = "Ok"
         THEN coverage_report(check(DocstringChecker_new, res.body), st)
         ELSE [valid |-> FALSE,
               issues |-> Append(st.issues,
                    Issue("SYNTAX_ERROR", <<"parse error">>, "error", res.offset))]
    ELSE st

docstring_check(r, st) ==
    IF "docstrings" \in r.checks /\ lang_ok(r)
    THEN LET res == parse(r.code) IN
         IF res.tag = "Ok"
         THEN coverage_report(check(DocstringChecker_new, res.body), st)
         ELSE st
    ELSE st

\* exec_requested that gives up on source the static tier rejected
exec_requested_if_parsed(r) ==
    "execution" \in r.checks /\ lang_ok(r) /\ parse(r.code).tag = "Ok"

exec_requested(r) == "execution" \in r.checks /\ lang_ok(r)

ScoreOne == 100
ScoreZero == 0
\* score_of with a partial score for an invalid request
score_of_half(v) == IF v THEN ScoreOne ELSE ScoreOne \div 2

score_of(v) == IF v THEN ScoreOne ELSE ScoreZero

----------------------------------------------------------------------------
(* MyVerifier::verify, execution tier *)

M_SUCCESS == "__EXECUTION_SUCCESS__"
M_ERROR == "__EXECUTION_ERROR__"

\* what the code handed to exec() does inside the wrapper script:
\*   ok     it runs to its end
\*   raise  it raises an Exception (caught by the wrapper)
\*   abort  the script dies without printing the captured output
\*   hang   it never terminates
\* prints: the marker texts the code itself prints to the captured stdout
UnitBehaviours ==
    { [result |-> "ok", prints |-> {}],
      [result |-> "raise", prints |-> {}],
      [result |-> "raise", prints |-> {M_SUCCESS}],
      [result |-> "abort", prints |-> {}],
      [result |-> "hang", prints |-> {}] }

\* the marker texts in the stdout of the wrapper script
wrapper_stdout(b) ==
    CASE b.result = "ok" -> b.prints \cup {M_SUCCESS}
      [] b.result = "raise" -> b.prints \cup {M_ERROR}
      [] OTHER -> {}

FileAbsent == [state |-> "absent", owner |-> 0]
FileEmpty(p) == [state |-> "empty", owner |-> p]
FileWrapper(p) == [state |-> "wrapper", owner |-> p]

NoChild == [state |-> "none", behaviour |-> [result |-> "ok", prints |-> {}],
            stdout |-> {}, script |-> FileAbsent]

Uuids == {1, 2}
NoPath == 0

\* a fixed file name in place of the uuid
new_v4_fixed(p) == 1

\* Uuid::new_v4(): a uuid no other call holds (the least one)
new_v4(p) ==
    CHOOSE u \in Uuids :
        /\ \A q \in Procs \ {p} : path[q] # u
        /\ \A v \in Uuids : (\A q \in Procs \ {p} : path[q] # v) => u <= v

\* classification of the interpreter's output
classify_output(stdout, st) ==
    IF M_SUCCESS \in stdout THEN st
    ELSE IF M_ERROR \in stdout
         THEN [valid |-> FALSE,
               issues |-> Append(st.issues,
                    Issue("EXECUTION_ERROR", <<"__EXECUTION_ERROR__ line">>, "error", 0))]
         ELSE [valid |-> FALSE,
               issues |-> Append(st.issues,
                    Issue("EXECUTION_FAIL", <<"Execution failed or no output">>, "error", 0))]

spawn_fail(st) ==
    [valid |-> FALSE,
     issues |-> Append(st.issues,
          Issue("EXECUTION_SPAWN_FAIL", <<"Failed to spawn python interpreter">>, "error", 0))]

----------------------------------------------------------------------------
(* State machine *)

St(p) == [valid |-> valid[p], issues |-> issues[p]]

SetSt(p, st) ==
    /\ valid' = [valid EXCEPT ![p] = st.valid]
    /\ issues' = [issues EXCEPT ![p] = st.issues]

Goto(p, l) == pc' = [pc EXCEPT ![p] = l]

Log(p, e) == trail' = [trail EXCEPT ![p] = Append(@, e)]

NoResp == [returned |-> FALSE, status |-> "none", valid |-> TRUE,
           score |-> ScoreOne, issues |-> <<>>]

\* response that turns a spawn failure into a transport error
response_err_on_spawn_fail(v, is) ==
    [returned |-> TRUE,
     status |-> IF \E i \in 1..Len(is) : is[i].code = "EXECUTION_SPAWN_FAIL"
                THEN "Err" ELSE "Ok",
     valid |-> v, score |-> score_of(v), issues |-> is]

\* Ok(Response::new(VerifyResponse { valid, score, issues }))
response(v, is) ==
    [returned |-> TRUE, status |-> "Ok", valid |-> v, score |-> score_of(v),
     issues |-> is]

InitCall(r, active) ==
    /\ req = [p \in Procs |-> IF p \in active THEN r[p] ELSE NoReq]
    /\ pc = [p \in Procs |-> IF p \in active THEN "syntax" ELSE "idle"]
    /\ valid = [p \in Procs |-> TRUE]
    /\ issues = [p \in Procs |-> <<>>]
    /\ checker = [p \in Procs |-> DocstringChecker_new]
    /\ path = [p \in Procs |-> NoPath]
    /\ fs = [u \in Uuids |-> FileAbsent]
    /\ child = [p \in Procs |-> NoChild]
    /\ trail = [p \in Procs |-> <<>>]
    /\ resp = [p \in Procs |-> NoResp]

SmtIdle ==
    /\ smt_pc = "idle"
    /\ smt_in = <<>>
    /\ smt_ret = TRUE

\* one call of verify, with any request
Init ==
    /\ \E r \in Requests : InitCall([p \in Procs |-> r], {1})
    /\ SmtIdle

\* 1. Syntax Check
SyntaxCheck(p) ==
    /\ pc[p] = "syntax"
    /\ SetSt(p, syntax_check(req[p], St(p)))
    /\ Goto(p, "docstring")
    /\ UNCHANGED <<req, checker, path, fs, child, trail, resp, smtVars>>

\* 2. Docstring Check
DocstringCheck(p) ==
    /\ pc[p] = "docstring"
    /\ SetSt(p, docstring_check(req[p], St(p)))
    /\ checker' = [checker EXCEPT ![p] = docstring_checker(req[p])]
    /\ Goto(p, "exec")
    /\ UNCHANGED <<req, path, fs, child, trail, resp, smtVars>>

\* 3. Execution Check: not requested, or language not supported
ExecSkip(p) ==
    /\ pc[p] = "exec"
    /\ ~exec_requested(req[p])
    /\ Goto(p, "finalize")
    /\ UNCHANGED <<req, checker, valid, issues, path, fs, child, trail, resp, smtVars>>

\* File::create(&temp_dir) succeeds: the file exists, empty
CreateOk(p) ==
    /\ pc[p] = "exec"
    /\ exec_requested(req[p])
    /\ LET u == new_v4(p) IN
        /\ path' = [path EXCEPT ![p] = u]
        /\ fs' = [fs EXCEPT ![u] = FileEmpty(p)]
    /\ Log(p, "create_ok")
    /\ Goto(p, "write")
    /\ UNCHANGED <<req, checker, valid, issues, child, resp, smtVars>>

\* File::create(&temp_dir) fails: the whole block is skipped
CreateFail(p) ==
    /\ pc[p] = "exec"
    /\ exec_requested(req[p])
    /\ path' = [path EXCEPT ![p] = new_v4(p)]
    /\ Log(p, "create_fail")
    /\ Goto(p, "finalize")
    /\ UNCHANGED <<req, checker, valid, issues, fs, child, resp, smtVars>>

\* file.write_all(wrapper_code) succeeds
WriteOk(p) ==
    /\ pc[p] = "write"
    /\ fs' = [fs EXCEPT ![path[p]] = FileWrapper(p)]
    /\ Log(p, "write_ok")
    /\ Goto(p, "spawn_py")
    /\ UNCHANGED <<req, checker, valid, issues, path, child, resp, smtVars>>

\* WriteFail with the removal inside the write_all block
WriteFail_skips_remove(p) ==
    /\ pc[p] = "write"
    /\ Log(p, "write_fail")
    /\ Goto(p, "finalize")
    /\ UNCHANGED <<req, checker, valid, issues, path, fs, child, resp, smtVars>>

\* file.write_all(wrapper_code) fails
WriteFail(p) ==
    /\ pc[p] = "write"
    /\ Log(p, "write_fail")
    /\ Goto(p, "remove")
    /\ UNCHANGED <<req, checker, valid, issues, path, fs, child, resp, smtVars>>

\* a spawned interpreter runs the script found at the path
Spawned(p, b) ==
    child' = [child EXCEPT ![p] =
                [state |-> "running", behaviour |-> b, stdout |-> {},
                 script |-> fs[path[p]]]]

\* Command::new("py").arg(&temp_dir).output(): the process starts
SpawnPyOk(p) ==
    /\ pc[p] = "spawn_py"
    /\ \E b \in UnitBehaviours : Spawned(p, b)
    /\ Log(p, "spawn_ok")
    /\ Goto(p, "wait")
    /\ UNCHANGED <<req, checker, valid, issues, path, fs, resp, smtVars>>

\* Command::new("py") cannot be started: .or_else tries "python"
SpawnPyFail(p) ==
    /\ pc[p] = "spawn_py"
    /\ Goto(p, "spawn_python")
    /\ UNCHANGED <<req, checker, valid, issues, path, fs, child, trail, resp, smtVars>>

\* Command::new("python").arg(&temp_dir).output(): the process starts
SpawnPythonOk(p) ==
    /\ pc[p] = "spawn_python"
    /\ \E b \in UnitBehaviours : Spawned(p, b)
    /\ Log(p, "spawn_ok")
    /\ Goto(p, "wait")
    /\ UNCHANGED <<req, checker, valid, issues, path, fs, resp, smtVars>>

\* neither interpreter can be started
SpawnPythonFail(p) ==
    /\ pc[p] = "spawn_python"
    /\ SetSt(p, spawn_fail(St(p)))
    /\ Log(p, "spawn_fail")
    /\ Goto(p, "remove")
    /\ UNCHANGED <<req, checker, path, fs, child, resp, smtVars>>

\* what the interpreter does with the script it was handed: the wrapper
\* runs the unit; an empty or missing file prints nothing
script_run(c) ==
    IF c.script.state = "wrapper" THEN c.behaviour
    ELSE [result |-> "abort", prints |-> {}]

\* the interpreter process ends (a unit that hangs never does)
ChildExit(p) ==
    /\ child[p].state = "running"
    /\ script_run(child[p]).result # "hang"
    /\ child' = [child EXCEPT ![p].state = "exited",
                              ![p].stdout = wrapper_stdout(script_run(child[p]))]
    /\ UNCHANGED <<req, checker, pc, valid, issues, path, fs, trail, resp, smtVars>>

\* output() returns once the process has ended; the output is classified
CollectOutput(p) ==
    /\ pc[p] = "wait"
    /\ child[p].state = "exited"
    /\ SetSt(p, classify_output(child[p].stdout, St(p)))
    /\ Log(p, "output")
    /\ Goto(p, "remove")
    /\ UNCHANGED <<req, checker, path, fs, child, resp, smtVars>>

\* let _ = std::fs::remove_file(&temp_dir): the file is removed
RemoveOk(p) ==
    /\ pc[p] = "remove"
    /\ fs' = [fs EXCEPT ![path[p]] = FileAbsent]
    /\ Log(p, "remove_ok")
    /\ Goto(p, "finalize")
    /\ UNCHANGED <<req, checker, valid, issues, path, child, resp, smtVars>>

\* let _ = std::fs::remove_file(&temp_dir): the removal fails, ignored
RemoveFail(p) ==
    /\ pc[p] = "remove"
    /\ Log(p, "remove_fail")
    /\ Goto(p, "finalize")
    /\ UNCHANGED <<req, checker, valid, issues, path, fs, child, resp, smtVars>>

\* Ok(Response::new(VerifyResponse { valid, score, issues }))
Finalize(p) ==
    /\ pc[p] = "finalize"
    /\ resp' = [resp EXCEPT ![p] = response(valid[p], issues[p])]
    /\ Goto(p, "done")
    /\ UNCHANGED <<req, checker, valid, issues, path, fs, child, trail, smtVars>>

Next ==
    \E p \in Procs :
        \/ SyntaxCheck(p)
        \/ DocstringCheck(p)
        \/ ExecSkip(p)
        \/ CreateOk(p)
        \/ CreateFail(p)
        \/ WriteOk(p)
        \/ WriteFail(p)
        \/ SpawnPyOk(p)
        \/ SpawnPyFail(p)
        \/ SpawnPythonOk(p)
        \/ SpawnPythonFail(p)
        \/ ChildExit(p)
        \/ CollectOutput(p)
        \/ RemoveOk(p)
        \/ RemoveFail(p)
        \/ Finalize(p)

Spec == Init /\ [][Next]_vars

\* every step of a call and of its interpreter is eventually taken
FairSpec == Spec /\ WF_vars(Next)

----------------------------------------------------------------------------
(* Two concurrent calls of verify *)

ConcRequests ==
    [code : {OkCode(MkBody(<<"fn_undoc">>)), ErrCode(0)},
     language : {S_python},
     checks : {{"execution"}, {"docstrings"}},
     contracts : {<<>>}]

InitConc ==
    /\ \E r \in [Procs -> ConcRequests] : InitCall(r, Procs)
    /\ SmtIdle

SpecConc == InitConc /\ [][Next]_vars

----------------------------------------------------------------------------
(* A call of SmtVerifier::verify_constraints *)

ConstraintExprs == {E_x, E_not_x, E_x_gt_0, E_x_lt_0, E_y_gt_0, S_fail, E_x_eq_false}

ConstraintSeqs == SeqsUpTo(ConstraintExprs, MaxConstraints)

InitSmt ==
    /\ InitCall([p \in Procs |-> NoReq], {})
    /\ smt_pc = "call"
    /\ smt_in \in ConstraintSeqs
    /\ smt_ret = TRUE

SmtCall ==
    /\ smt_pc = "call"
    /\ smt_ret' = verify_constraints(smt_in)
    /\ smt_pc' = "returned"
    /\ UNCHANGED <<smt_in, verifyVars>>

NextSmt == SmtCall

SpecSmt == InitSmt /\ [][NextSmt]_vars

----------------------------------------------------------------------------
(* A DocstringChecker driven by check_def calls *)

DefBodies ==
    { <<>>, <<ReturnStmt>>, <<ExprStmt("Str"), ReturnStmt>>, <<ExprStmt("Int")>> }

DefNames == { <<"f", 1>>, <<"g", 1>> }

InitChecker ==
    /\ InitCall([p \in Procs |-> NoReq], {})
    /\ SmtIdle

CheckDefCall ==
    /\ checker[1].total_definitions < MaxCalls
    /\ \E body \in DefBodies, name \in DefNames :
            checker' = [checker EXCEPT ![1] = check_def(checker[1], body, name)]
    /\ UNCHANGED <<req, pc, valid, issues, path, fs, child, trail, resp, smtVars>>

NextChecker == CheckDefCall

SpecChecker == InitChecker /\ [][NextChecker]_vars

----------------------------------------------------------------------------
(* Properties *)

Returned(p) == resp[p].returned

CountCode(is, c) == Cardinality({i \in 1..Len(is) : is[i].code = c})

HasCode(is, c) == \E i \in 1..Len(is) : is[i].code = c

HasError(is) == \E i \in 1..Len(is) : is[i].severity = "error"

RecognizedChecks == {"docstrings", "execution"}

\* C1: in every response returned by verify, an issue of severity "error"
\* in the issue list implies valid = false.
C1_ErrorImpliesInvalid ==
    \A p \in Procs :
        Returned(p) /\ HasError(resp[p].issues) => resp[p].valid = FALSE

\* a response carrying an error issue of each tier
C1_Witness ==
    \E p \in Procs :
        /\ Returned(p)
        /\ HasCode(resp[p].issues, "SYNTAX_ERROR")
        /\ HasCode(resp[p].issues, "EXECUTION_ERROR")
        /\ resp[p].valid = FALSE

\* C2 (as stated): a request with no recognized check and no contracts
\* yields valid = true and score = 1.0 for every source and every language.
C2_VacuousPassAnySource ==
    \A p \in Procs :
        /\ Returned(p)
        /\ req[p].checks \cap RecognizedChecks = {}
        /\ req[p].contracts = <<>>
        => resp[p].valid = TRUE /\ resp[p].score = ScoreOne

\* C2 (amended): a request with no recognized check and no contracts yields
\* valid = true and score = 1.0 whenever its source parses or its language
\* is not the supported one.
C2_VacuousPass ==
    \A p \in Procs :
        /\ Returned(p)
        /\ req[p].checks \cap RecognizedChecks = {}
        /\ req[p].contracts = <<>>
        /\ (parse(req[p].code).tag = "Ok" \/ ~lang_ok(req[p]))
        => resp[p].valid = TRUE /\ resp[p].score = ScoreOne

\* an unrecognized check name only, on parseable source without docstrings
C2_Witness ==
    \E p \in Procs :
        /\ Returned(p)
        /\ req[p].checks = {"lint"}
        /\ req[p].contracts = <<>>
        /\ lang_ok(req[p])
        /\ parse(req[p].code).tag = "Ok"
        /\ check(DocstringChecker_new, req[p].code.body).missing_docs # <<>>
        /\ resp[p].valid = TRUE
        /\ resp[p].score = ScoreOne

\* C3: supported (or empty) language and a source that fails to parse, any
\* checks: valid = false, exactly one SYNTAX_ERROR issue, of severity
\* "error", and no DOCSTRING_MISSING issue.
C3_ParseError ==
    \A p \in Procs :
        /\ Returned(p)
        /\ lang_ok(req[p])
        /\ parse(req[p].code).tag = "Err"
        => /\ resp[p].valid = FALSE
           /\ CountCode(resp[p].issues, "SYNTAX_ERROR") = 1
           /\ \A i \in 1..Len(resp[p].issues) :
                resp[p].issues[i].code = "SYNTAX_ERROR"
                    => resp[p].issues[i].severity = "error"
           /\ ~HasCode(resp[p].issues, "DOCSTRING_MISSING")

\* a parse error with both checks requested
C3_Witness ==
    \E p \in Procs :
        /\ Returned(p)
        /\ lang_ok(req[p])
        /\ parse(req[p].code).tag = "Err"
        /\ RecognizedChecks \subseteq req[p].checks
        /\ CountCode(resp[p].issues, "SYNTAX_ERROR") = 1

IsUndocumentedDef(s) == s.kind \in DefKinds /\ ~HasDocstring(s.body)

IsDocstringIssue(i) == i.code = "DOCSTRING_MISSING"

\* the checker's report on the request of call p
Report(p) == check(DocstringChecker_new, parse(req[p].code).body)

\* the docstrings check runs on parseable source
DocstringsRun(p) ==
    /\ "docstrings" \in req[p].checks
    /\ lang_ok(req[p])
    /\ parse(req[p].code).tag = "Ok"

\* C4: docstrings check on parseable source with total_definitions > 0 and
\* documented/total_definitions >= 0.5: no DOCSTRING_MISSING issue at all,
\* even if some definitions are undocumented.
C4_NoWarningAtHalfCoverage ==
    \A p \in Procs :
        /\ Returned(p)
        /\ DocstringsRun(p)
        /\ Report(p).total_definitions > 0
        /\ 2 * Report(p).documented >= Report(p).total_definitions
        => ~HasCode(resp[p].issues, "DOCSTRING_MISSING")

\* C5: docstrings check on parseable source with
\* documented/total_definitions < 0.5: the DOCSTRING_MISSING issues are one
\* summary warning first, then min(5, undocumented) per-definition warnings
\* naming the first undocumented definitions in traversal order.
C5_LowCoverageWarnings ==
    \A p \in Procs :
        /\ Returned(p)
        /\ DocstringsRun(p)
        /\ 2 * Report(p).documented < Report(p).total_definitions
        => LET ds == SelectSeq(resp[p].issues, IsDocstringIssue)
               und == SelectSeq(req[p].code.body, IsUndocumentedDef)
               n == IF Len(und) < 5 THEN Len(und) ELSE 5
           IN  /\ Len(ds) = 1 + n
               /\ ds[1].message[1] = "Low docstring coverage"
               /\ \A i \in 1..Len(ds) : ds[i].severity = "warning"
               /\ \A i \in 1..n :
                    ds[i + 1].message = <<"lacks a docstring", und[i].name>>

\* more than five undocumented definitions, five of them named
C5_Witness ==
    \E p \in Procs :
        /\ Returned(p)
        /\ DocstringsRun(p)
        /\ Len(SelectSeq(req[p].code.body, IsUndocumentedDef)) > 5
        /\ 2 * Report(p).documented < Report(p).total_definitions
        /\ CountCode(resp[p].issues, "DOCSTRING_MISSING") = 6

DynamicCodes == {"EXECUTION_ERROR", "EXECUTION_FAIL", "EXECUTION_SPAWN_FAIL",
                 "EXECUTION_TIMEOUT", "EXECUTION_FUEL_EXHAUSTED"}

DynamicIssues(is) == {i \in 1..Len(is) : is[i].code \in DynamicCodes}

InTrail(p, e) == \E i \in 1..Len(trail[p]) : trail[p][i] = e

\* the request of call p asks for the execution check in the supported
\* (or empty) language
ExecutionAsked(p) ==
    /\ "execution" \in req[p].checks
    /\ (to_lowercase(req[p].language) = S_python \/ req[p].language = <<>>)

\* C6: when the execution check is requested (language supported or
\* empty), the dynamic tier runs and reports the outcome of the interpreter
\* whatever the static tier found: its block is entered, a missing success
\* marker is reported, a spawn failure is reported.
C6_TierIndependence ==
    \A p \in Procs :
        /\ (pc[p] \in {"finalize", "done"} /\ ExecutionAsked(p)
                => trail[p] # <<>>)
        /\ (pc[p] \in {"finalize", "done"} /\ ~InTrail(p, "create_fail")
            /\ ~InTrail(p, "write_fail") /\ ExecutionAsked(p)
                => \/ InTrail(p, "spawn_fail")
                      /\ HasCode(issues[p], "EXECUTION_SPAWN_FAIL")
                   \/ InTrail(p, "output")
                      /\ (M_SUCCESS \notin child[p].stdout
                            <=> DynamicIssues(issues[p]) # {}))

\* the interpreter's error is reported after a syntax error was
C6_Witness ==
    \E p \in Procs :
        /\ Returned(p)
        /\ ExecutionAsked(p)
        /\ Len(resp[p].issues) = 2
        /\ resp[p].issues[1].code = "SYNTAX_ERROR"
        /\ resp[p].issues[2].code = "EXECUTION_ERROR"

\* C7: if the executed unit never terminates, the call eventually returns
\* and reports EXECUTION_TIMEOUT.
C7_HangIsTimedOut ==
    \A p \in Procs :
        (child[p].state = "running" /\ child[p].behaviour.result = "hang")
            ~> (Returned(p) /\ HasCode(resp[p].issues, "EXECUTION_TIMEOUT"))

Expressions(cs) == [i \in 1..Len(cs) |-> cs[i].expression]

\* C8: for a request carrying contracts on which the constraint verifier
\* reports unsatisfiable, the response has valid = false and a score of
\* 0.5 when nothing else failed.
C8_FormalTier ==
    \A p \in Procs :
        /\ Returned(p)
        /\ req[p].contracts # <<>>
        /\ ~verify_constraints(Expressions(req[p].contracts))
        => /\ resp[p].valid = FALSE
           /\ (resp[p].issues = <<>> => 2 * resp[p].score = ScoreOne)

FreeVariables == {"x", "y"}

\* both v and not v, or both v > 0 and v < 0, for one free variable v
DirectContradiction(cs) ==
    \E v \in FreeVariables :
        LET has(e) == \E i \in 1..Len(cs) : cs[i] = e IN
        \/ has(<<v>>) /\ has(<<"n","o","t"," ",v>>)
        \/ has(<<v," ",">"," ","0">>) /\ has(<<v," ","<"," ","0">>)

\* C9: verify_constraints returns false for every constraint sequence
\* containing a direct contradiction on one free variable, and true for the
\* empty sequence.
C9_ContradictionUnsat ==
    smt_pc = "returned" =>
        /\ (DirectContradiction(smt_in) => smt_ret = FALSE)
        /\ (smt_in = <<>> => smt_ret = TRUE)

\* the execution check of call p ran and failed
ExecutionFailed(p) ==
    \/ InTrail(p, "create_fail")
    \/ InTrail(p, "write_fail")
    \/ InTrail(p, "spawn_fail")
    \/ InTrail(p, "output") /\ child[p].behaviour.result # "ok"

\* C10: when the execution check runs and fails in any way, the response
\* has valid = false and exactly one issue of the dynamic tier, whose code
\* reflects the failure kind.
C10_FailureReported ==
    \A p \in Procs :
        Returned(p) /\ ExecutionFailed(p)
        => /\ resp[p].valid = FALSE
           /\ Cardinality(DynamicIssues(resp[p].issues)) = 1
           /\ (InTrail(p, "spawn_fail")
                => HasCode(resp[p].issues, "EXECUTION_SPAWN_FAIL"))
           /\ (InTrail(p, "output") /\ child[p].behaviour.result = "raise"
                => HasCode(resp[p].issues, "EXECUTION_ERROR"))

\* C11: for every request and every outcome of parsing, temp-file I/O and
\* interpreter spawning and execution, a call that returns returns Ok with
\* a structured VerifyResponse, never an Err(Status).
C11_FailuresAreData ==
    \A p \in Procs :
        /\ (pc[p] = "done" => Returned(p))
        /\ (Returned(p) =>
                /\ resp[p].status = "Ok"
                /\ resp[p].valid \in BOOLEAN
                /\ resp[p].score \in {ScoreZero, ScoreOne}
                /\ resp[p].issues = issues[p])

\* Ok responses after a parse error and each failure of the execution block
C11_Witness ==
    \E p \in Procs :
        /\ Returned(p)
        /\ resp[p].status = "Ok"
        /\ HasCode(resp[p].issues, "SYNTAX_ERROR")
        /\ HasCode(resp[p].issues, "EXECUTION_SPAWN_FAIL")

StaticCodes == {"SYNTAX_ERROR", "DOCSTRING_MISSING"}

\* C12: when only the static tier reports issues (SYNTAX_ERROR and/or
\* DOCSTRING_MISSING) and no dynamic or formal check fails, the score is
\* 1.0 whatever valid is.
C12_StaticIssuesKeepScore ==
    \A p \in Procs :
        /\ Returned(p)
        /\ resp[p].issues # <<>>
        /\ \A i \in 1..Len(resp[p].issues) : resp[p].issues[i].code \in StaticCodes
        /\ ~ExecutionFailed(p)
        => resp[p].score = ScoreOne

\* the definitions of a body at any depth, in AST pre-order
RECURSIVE DefsPreorder(_)
DefsPreorder(body) ==
    IF body = <<>> THEN <<>>
    ELSE LET h == Head(body) IN
         (IF h.kind \in DefKinds THEN <<h>> \o DefsPreorder(h.body) ELSE <<>>)
            \o DefsPreorder(Tail(body))

NamesOf(defs) == [i \in 1..Len(defs) |-> defs[i].name]

\* C13: the docstring traversal counts every function, async-function and
\* class definition at any depth: total_definitions is their number and
\* missing_docs lists the undocumented ones in pre-order.
C13_NestedTraversal ==
    \A p \in Procs :
        pc[p] \in {"exec", "finalize", "done"} /\ DocstringsRun(p)
        => LET defs == DefsPreorder(req[p].code.body) IN
           /\ checker[p].total_definitions = Len(defs)
           /\ checker[p].missing_docs
                = NamesOf(SelectSeq(defs, IsUndocumentedDef))

\* C17: after any sequence of check_def calls, documented <=
\* total_definitions and total_definitions = documented +
\* length(missing_docs).
C17_CheckerCounts ==
    \A p \in Procs :
        /\ checker[p].documented <= checker[p].total_definitions
        /\ checker[p].total_definitions
              = checker[p].documented + Len(checker[p].missing_docs)

\* calls with documented and undocumented definitions mixed
C17_Witness ==
    /\ checker[1].total_definitions = MaxCalls
    /\ checker[1].documented >= 2
    /\ Len(checker[1].missing_docs) >= 2

NoTopLevelDefs(body) == \A i \in 1..Len(body) : body[i].kind \notin DefKinds

\* C14: parseable source with zero top-level definitions: no
\* DOCSTRING_MISSING issue is emitted and the docstring check does not set
\* valid to false, even when the docstrings check is requested.
C14_NoDefinitionsNoWarning ==
    \A p \in Procs :
        /\ pc[p] \in {"exec", "write", "spawn_py", "spawn_python", "wait",
                      "remove", "finalize", "done"}
        /\ parse(req[p].code).tag = "Ok"
        /\ NoTopLevelDefs(req[p].code.body)
        => /\ ~HasCode(issues[p], "DOCSTRING_MISSING")
           /\ (pc[p] = "exec" => valid[p] = TRUE)
           /\ (Returned(p) => ~HasCode(resp[p].issues, "DOCSTRING_MISSING"))

\* the docstrings check has run on statements that are not definitions
C14_Witness ==
    \E p \in Procs :
        /\ Returned(p)
        /\ DocstringsRun(p)
        /\ Len(req[p].code.body) = MaxStmts
        /\ NoTopLevelDefs(req[p].code.body)
        /\ resp[p].valid = TRUE

\* number of top-level definitions of a body, and of the documented ones
TopLevelDefs(body) == Cardinality({i \in 1..Len(body) : body[i].kind \in DefKinds})
TopLevelDocumented(body) ==
    Cardinality({i \in 1..Len(body) :
                    body[i].kind \in DefKinds /\ HasDocstring(body[i].body)})

OneUndocumentedFunction == <<DefStmt("FunctionDef", <<"f", 1>>, <<ReturnStmt>>)>>

\* C16: whenever the docstrings check runs on parseable source with
\* documented/total_definitions < 0.5, valid = false although every issue
\* of the docstring check is a warning; one undocumented function yields
\* exactly the summary "0/1 (0%)" and one issue naming the function.
C16_LowCoverageInvalidates ==
    \A p \in Procs :
        /\ Returned(p)
        /\ DocstringsRun(p)
        /\ 2 * TopLevelDocumented(req[p].code.body) < TopLevelDefs(req[p].code.body)
        => /\ resp[p].valid = FALSE
           /\ \A i \in 1..Len(resp[p].issues) :
                resp[p].issues[i].code = "DOCSTRING_MISSING"
                    => resp[p].issues[i].severity = "warning"
           /\ (req[p].code.body = OneUndocumentedFunction =>
                LET ds == SelectSeq(resp[p].issues, IsDocstringIssue) IN
                /\ Len(ds) = 2
                /\ ds[1].message = <<"Low docstring coverage", 0, 1, 0>>
                /\ ds[2].message = <<"lacks a docstring", <<"f", 1>>>>)

\* one undocumented function, docstrings check only
C16_Witness ==
    \E p \in Procs :
        /\ Returned(p)
        /\ DocstringsRun(p)
        /\ req[p].checks = {"docstrings"}
        /\ req[p].code.body = OneUndocumentedFunction
        /\ resp[p].valid = FALSE
        /\ Len(resp[p].issues) = 2

\* C18: in every response the score is 1.0 if valid is true and 0.0 if
\* valid is false; no intermediate score is returned.
C18_BinaryScore ==
    \A p \in Procs :
        Returned(p) =>
            /\ (resp[p].valid = TRUE => resp[p].score = ScoreOne)
            /\ (resp[p].valid = FALSE => resp[p].score = ScoreZero)

\* an invalid response, where a contract the verifier rejects is carried
C18_Witness ==
    \E p \in Procs :
        /\ Returned(p)
        /\ resp[p].valid = FALSE
        /\ resp[p].score = ScoreZero
        /\ req[p].contracts # <<>>

\* the response of call p had it run alone on request r with the outcomes
\* its execution block met
Alone(r, p) ==
    LET st2 == docstring_check(r, syntax_check(r, [valid |-> TRUE, issues |-> <<>>]))
        st3 == IF InTrail(p, "spawn_fail") THEN spawn_fail(st2)
               ELSE IF InTrail(p, "output")
                    THEN classify_output(wrapper_stdout(child[p].behaviour), st2)
                    ELSE st2
    IN  response(st3.valid, st3.issues)

PythonCasings == { <<"P","y","t","h","o","n">>, <<"P","Y","T","H","O","N">> }
OtherLanguages == { <<"r","u","s","t">> }

\* C19: with a non-empty language other than "python" in any casing no
\* tier runs and the response is valid = true, score = 1.0, no issues; any
\* casing of "python" is treated as "python" and as the empty language.
C19_LanguageGate ==
    \A p \in Procs :
        /\ (req[p].language \in OtherLanguages =>
                /\ issues[p] = <<>>
                /\ valid[p] = TRUE
                /\ checker[p] = DocstringChecker_new
                /\ trail[p] = <<>>
                /\ path[p] = NoPath
                /\ \A u \in Uuids : fs[u] = FileAbsent
                /\ child[p] = NoChild
                /\ (Returned(p) => resp[p].valid = TRUE /\ resp[p].score = ScoreOne
                                   /\ resp[p].issues = <<>>))
        /\ (Returned(p) /\ req[p].language \in PythonCasings =>
                /\ resp[p] = Alone([req[p] EXCEPT !.language = S_python], p)
                /\ resp[p] = Alone([req[p] EXCEPT !.language = <<>>], p)
                /\ ("execution" \in req[p].checks => trail[p] # <<>>))

\* an unsupported language with unparseable source and every check asked
C19_Witness ==
    \E p \in Procs :
        /\ Returned(p)
        /\ req[p].language \in OtherLanguages
        /\ parse(req[p].code).tag = "Err"
        /\ req[p].checks = CheckNames
        /\ resp[p].valid = TRUE

\* C15: with two verify calls interleaved in any way, each response equals
\* the response of that call run alone with the same request and the same
\* tier outcomes, and no call reads, overwrites or deletes the temp file
\* of the other.
C15_RequestIndependence ==
    \A p \in Procs :
        /\ (Returned(p) => resp[p] = Alone(req[p], p))
        /\ (child[p].state # "none" => child[p].script = FileWrapper(p))
        /\ (pc[p] = "write" => fs[path[p]] = FileEmpty(p))
        /\ (pc[p] \in {"spawn_py", "spawn_python", "wait"}
                => fs[path[p]] = FileWrapper(p))
        /\ (InTrail(p, "remove_ok") => fs[path[p]] = FileAbsent)
        /\ \A q \in Procs \ {p} :
                path[p] # NoPath /\ path[q] # NoPath => path[p] # path[q]
        /\ \A u \in Uuids :
                fs[u].owner = p => path[p] = u

\* both interpreters have run, each on its own file, both files in place
C15_Witness ==
    /\ \A p \in Procs : /\ pc[p] = "wait"
                        /\ child[p].state = "exited"
                        /\ fs[path[p]] = FileWrapper(p)
    /\ child[1].stdout # child[2].stdout

====
